---- MODULE Spec2Model ----
(***************************************************************************)
(* The cached fetch gateway of the Roblox API server: fetchFromRobloxAPI    *)
(* (src/server.js:96-127) over the node-cache instance `cache`             *)
(* (src/server.js:17) and axios.get (src/server.js:103-108).               *)
(*                                                                         *)
(* Time is the value of Date.now(), in milliseconds.  A ttl is in seconds, *)
(* as node-cache takes it.  Every fetchFromRobloxAPI invocation is a call  *)
(* c \in Calls; it runs synchronously up to `await axios.get` (InvokeHit,  *)
(* InvokeMiss) and continues when the promise settles (Resolve, Reject).   *)
(* `done` describes the invocation that has completed and whose caller has *)
(* not resumed yet.  Spec is the gateway; LiveSpec is the gateway with the *)
(* clock, the timeout timers and the awaiting callers making progress.     *)
(*                                                                         *)
(* The data routes (src/server.js:142-359) are the second part: a request  *)
(* `req` goes through authenticateApiKey, the validators and the handler,  *)
(* which awaits the gateway (RouteSpec).  There the gateway is seen from   *)
(* its caller: each awaited lookup settles with one of the outcomes an     *)
(* invocation can have.                                                    *)
(***************************************************************************)
EXTENDS Integers, FiniteSets, Sequences, TLC

----------------------------------------------------------------------------
(* Bounds of the model *)

\* number of fetchFromRobloxAPI invocations in a behaviour
NCalls == 2
\* number of times the clock is seen to advance
MaxAdvances == 2

----------------------------------------------------------------------------
(* Constants of the program *)

\* new NodeCache({ stdTTL: 300 })
stdTTL == 300
\* fetchFromRobloxAPI = async (url, cacheKey = null, ttl = 300)
DefaultTtl == 300
\* axios.get(url, { timeout: 10000, ... })
TimeoutMs == 10000
\* node-cache counts a ttl in seconds and keeps timestamps in milliseconds
ttlMultiplicator == 1000

Calls == 1..NCalls
\* the target url: any of these, it takes no part in the cache lookup
Urls == {"u1", "u2"}
\* cacheKey: "" stands for every falsy key (null, the default, included)
NoKey == ""
Keys == {"a", "b"}
KeyArgs == Keys \cup {NoKey}
\* ttl argument: <<>> when the argument is omitted, <<n>> when n is passed
Omitted == <<>>
TtlArgs == {Omitted, <<0>>, <<10>>}
\* amounts by which Date.now() is seen to advance between two events
Steps == {1, 10000}
\* non-2xx statuses the upstream answers with
Statuses == {404, 503}

\* A response body: `by` is the invocation whose outbound call obtained it,
\* `key` the cacheKey of that invocation.  by = 0 is JavaScript's undefined.
Undefined == [by |-> 0, key |-> NoKey]
NoEntry == [v |-> Undefined, t |-> -1]
NoError == [kind |-> "none", status |-> 0]
NoCause == [kind |-> "none", status |-> 0]
NoStore == [by |-> 0, at |-> 0, ttl |-> 0]

VARIABLES
  cache,      \* node-cache's data: key -> [v: value, t: expiry ms, 0 = never]
  now,        \* Date.now()
  advances,   \* how many times the clock advanced
  calls,      \* the invocations of fetchFromRobloxAPI
  last,       \* history: per key, the latest successful store (who, when, ttl)
  done,       \* the invocation that completed, until its caller resumes
  mutated,    \* the objects some caller has mutated after receiving them
  env,        \* process.env.API_KEY
  req         \* the HTTP request being served by a data route

vars == <<cache, now, advances, calls, last, done, mutated, env, req>>

----------------------------------------------------------------------------
(* node-cache *)

\* an expiry test that is late by a millisecond
Expired_Late(e, at) == e.t # 0 /\ e.t + 1 < at

\* _check(key, data): an entry is expired once t is set and before Date.now()
Expired(e, at) == e.t # 0 /\ e.t < at

\* has(key) / the test in get(key): the entry exists and passes _check
Has(c, k, at) == c[k] # NoEntry /\ ~Expired(c[k], at)

Checked_Touch(c, k, at) ==
  IF c[k] # NoEntry /\ Expired(c[k], at) THEN [c EXCEPT ![k] = NoEntry]
  ELSE IF c[k] # NoEntry /\ c[k].t # 0
       THEN [c EXCEPT ![k].t = at + stdTTL * ttlMultiplicator]
       ELSE c

\* _check's side effect (deleteOnExpire): an expired entry is deleted on read
Checked(c, k, at) ==
  IF c[k] # NoEntry /\ Expired(c[k], at) THEN [c EXCEPT ![k] = NoEntry] ELSE c

\* get(key): the (cloned) value of an entry that passes _check, else undefined
Get(c, k, at) == IF Has(c, k, at) THEN c[k].v ELSE Undefined

\* a _wrap that ignores the ttl it is given
Wrap_StdOnly(value, ttl, at) ==
  [v |-> value, t |-> at + stdTTL * ttlMultiplicator]

\* _wrap(value, ttl): livetime 0 for ttl 0, now + ttl * 1000 for another
\* number, the stdTTL's for a ttl that is no number
Wrap(value, ttl, at) ==
  [v |-> value,
   t |-> IF ttl = <<0>> THEN 0
         ELSE IF ttl # <<>> THEN at + ttl[1] * ttlMultiplicator
         ELSE IF stdTTL = 0 THEN 0
         ELSE at + stdTTL * ttlMultiplicator]

\* a set that keys every entry alike
Set_Shared(c, k, value, ttl, at) == [j \in DOMAIN c |-> Wrap(value, ttl, at)]

\* a set that keeps the entry that is there
Set_KeepFirst(c, k, value, ttl, at) ==
  IF c[k] # NoEntry THEN c ELSE [c EXCEPT ![k] = Wrap(value, ttl, at)]

\* set(key, value, ttl)
Set(c, k, value, ttl, at) == [c EXCEPT ![k] = Wrap(value, ttl, at)]

----------------------------------------------------------------------------
(* fetchFromRobloxAPI *)

\* if (cacheKey && ...)
Truthy(k) == k # NoKey

\* the default parameter ttl = 300
TtlParam(a) == IF a = Omitted THEN <<DefaultTtl>> ELSE a

\* an invocation: st is idle, pending (awaiting axios.get) or over
IdleCall ==
  [st |-> "idle", key |-> NoKey, ttl |-> Omitted, issued |-> 0,
   seen |-> NoStore, racing |-> {}]

\* a completed invocation: its arguments, the number of outbound calls it
\* made, how its outbound call ended, what it returned or threw, whose
\* value its cache.set replaced
NoDone ==
  [id |-> 0, st |-> "idle", key |-> NoKey, issued |-> 0,
   seen |-> NoStore, racing |-> {}, outbound |-> 0, cause |-> NoCause,
   res |-> Undefined, err |-> NoError, prev |-> 0]

\* process.env.API_KEY; NoKey when the variable is not set
ApiKeys == {NoKey, "secret"}

\* what a request carries as x-api-key header, and as apiKey query value
Provided == {NoKey, "secret", "wrong"}

\* the routes that call fetchFromRobloxAPI, and one that serves mock data only
GatewayRoutes == {"player", "game", "group", "avatar"}
Routes == GatewayRoutes \cup {"asset"}

\* the values of the repeated query parameter `size`, in order: none, one
\* listed size, one unlisted size, two listed sizes (req.query.size is then
\* an array)
SizeArgs == {<<>>, <<"48x48">>, <<"9x9">>, <<"48x48", "150x150">>}
ListedSizes == {"48x48", "150x150"}

\* what an awaited fetchFromRobloxAPI gives a handler: an error thrown, the
\* payload the route expects, a payload whose data array is empty, a body
\* that is not an object (a string left undecoded), or undefined
Outcomes == {"thrown", "object", "nodata", "string", "undefined"}

\* without a cache key the gateway returns response.data of its own call
AuxOutcomes == Outcomes \ {"undefined"}

NoRequest ==
  [stage |-> "none", route |-> "", header |-> NoKey, query |-> NoKey,
   idOk |-> FALSE, size |-> <<>>, passed |-> <<>>, fetches |-> 0,
   primary |-> "", friendsData |-> "", avatarData |-> "",
   responses |-> 0, status |-> 0, success |-> FALSE, code |-> "",
   body |-> "", friendsCount |-> "", avatarThumbnail |-> ""]

\* Object identities. response.data of call c is one object; node-cache runs
\* with its default useClones: cache.set stores a clone of what it is given
\* and cache.get hands out a clone of what it stores.
Data(c) == [of |-> c, copy |-> 0]

StoredObj_NoClone(o) == o

\* the object the table holds after cache.set(cacheKey, o, ttl)
StoredObj(o) == [o EXCEPT !.copy = 1]

\* the object cache.get(cacheKey) hands to call c
ReadObj(o, c) == [o EXCEPT !.copy = 1 + c]

\* the object the table holds under an existing entry
Held(e) == StoredObj(Data(e.v.by))

Init ==
  /\ cache = [k \in Keys |-> NoEntry]
  /\ now = 0
  /\ advances = 0
  /\ calls = [c \in Calls |-> IdleCall]
  /\ last = [k \in Keys |-> NoStore]
  /\ done = NoDone
  /\ mutated = {}
  /\ env = NoKey
  /\ req = NoRequest

\* what is left of an invocation once it has completed
Completed == [IdleCall EXCEPT !.st = "over"]

\* A completion is delivered to the awaiting caller before the event loop
\* runs anything else: the continuation of an await is a microtask.
Delivered == done = NoDone

\* invocations are numbered in the order they are made
CanInvoke(c) ==
  /\ Delivered
  /\ calls[c].st = "idle"
  /\ IF c = 1 THEN TRUE ELSE calls[c - 1].st # "idle"

\* history: the ttl a call asks for, in seconds (300 when it passes none)
Asked(a) == IF a = Omitted THEN 300 ELSE a[1]

\* history: the latest successful store under the key, as the call finds it
Seen(k) == IF Truthy(k) THEN last[k] ELSE NoStore

\* cacheKey && cache.has(cacheKey) holds: return cache.get(cacheKey).
\* Date.now() is read once by has and once by get, d ms later.
InvokeHit(c, url, k, ttl, d) ==
  /\ CanInvoke(c)
  /\ Truthy(k) /\ Has(cache, k, now)
  /\ IF d = 0 THEN TRUE ELSE advances < MaxAdvances
  /\ now' = now + d
  /\ advances' = IF d = 0 THEN advances ELSE advances + 1
  /\ cache' = Checked(Checked(cache, k, now), k, now + d)
  /\ calls' = [calls EXCEPT ![c] = Completed]
  /\ done' = [NoDone EXCEPT !.id = c, !.st = "returned", !.key = k,
                            !.issued = now, !.seen = Seen(k),
                            !.res = Get(Checked(cache, k, now), k, now + d)]
  /\ UNCHANGED <<last, mutated, env, req>>

\* no key, or cache.has(cacheKey) fails: axios.get(url, ...) is issued.
\* The ttl is kept for cache.set; without a key it is never read.
InvokeMiss(c, url, k, ttl) ==
  /\ CanInvoke(c)
  /\ ~(Truthy(k) /\ Has(cache, k, now))
  /\ cache' = IF Truthy(k) THEN Checked(cache, k, now) ELSE cache
  /\ LET others == {o \in Calls : /\ calls[o].st = "pending"
                                  /\ Truthy(k)
                                  /\ calls[o].key = k}
     IN calls' = [o \in Calls |->
          IF o = c
          THEN [st |-> "pending", key |-> k, issued |-> now,
                ttl |-> IF Truthy(k) THEN ttl ELSE Omitted,
                seen |-> Seen(k), racing |-> others]
          ELSE IF o \in others
          THEN [calls[o] EXCEPT !.racing = @ \cup {c}]
          ELSE calls[o]]
  /\ done' = NoDone
  /\ UNCHANGED <<now, advances, last, mutated, env, req>>

\* the invocation c as it completes
Completion(c, st, cause, res, err) ==
  [id |-> c, st |-> st, key |-> calls[c].key,
   issued |-> calls[c].issued, seen |-> calls[c].seen,
   racing |-> calls[c].racing, outbound |-> 1, cause |-> cause,
   res |-> res, err |-> err,
   prev |-> IF st = "returned" /\ Truthy(calls[c].key)
            THEN cache[calls[c].key].v.by ELSE 0]

\* a Resolve that caches under a default key when it is given none
Resolve_KeyDefault(c, raw) ==
  /\ Delivered
  /\ calls[c].st = "pending"
  /\ LET k == IF Truthy(calls[c].key) THEN calls[c].key ELSE "a"
         data == [by |-> c, key |-> calls[c].key]
     IN /\ cache' = Set(cache, k, data, TtlParam(calls[c].ttl), now)
        /\ last' = [last EXCEPT ![k] =
                      [by |-> c, at |-> now, ttl |-> Asked(calls[c].ttl)]]
        /\ done' = Completion(c, "returned",
                              [kind |-> IF raw THEN "malformed" ELSE "ok",
                               status |-> 200],
                              data, NoError)
  /\ calls' = [calls EXCEPT ![c] = Completed]
  /\ UNCHANGED <<now, advances, mutated, env, req>>

\* axios resolves with a 2xx response.  response.data is the decoded body,
\* or (raw) the body as a string when it cannot be decoded: axios' default
\* transformResponse ignores the parse error.  Either is cached under
\* cacheKey with the ttl parameter, and returned.
Resolve(c, raw) ==
  /\ Delivered
  /\ calls[c].st = "pending"
  /\ LET k == calls[c].key
         data == [by |-> c, key |-> k]
     IN /\ cache' = IF Truthy(k)
                    THEN Set(cache, k, data, TtlParam(calls[c].ttl), now)
                    ELSE cache
        /\ last' = IF Truthy(k)
                   THEN [last EXCEPT ![k] =
                           [by |-> c, at |-> now,
                            ttl |-> Asked(calls[c].ttl)]]
                   ELSE last
        /\ done' = Completion(c, "returned",
                              [kind |-> IF raw THEN "malformed" ELSE "ok",
                               status |-> 200],
                              data, NoError)
  /\ calls' = [calls EXCEPT ![c] = Completed]
  /\ UNCHANGED <<now, advances, mutated, env, req>>

\* the catch block: the Error thrown for a rejection of axios.get
Thrown(cause) ==
  IF cause.kind = "status"
  THEN [kind |-> "Roblox API error", status |-> cause.status]
  ELSE IF cause.kind \in {"timeout", "network"}
  THEN [kind |-> "Failed to connect to Roblox API", status |-> 0]
  ELSE [kind |-> "Request error", status |-> 0]

\* the ways axios.get rejects: a non-2xx status (error.response), no
\* response within the timeout or no connection (error.request), an error
\* before the request was sent
Causes ==
  [kind : {"status"}, status : Statuses]
    \cup [kind : {"timeout", "network", "setup"}, status : {0}]

\* a catch block that drops the key's entry before it throws
Reject_Invalidate(c, cause) ==
  /\ Delivered
  /\ calls[c].st = "pending"
  /\ cause.kind = "timeout" => now - calls[c].issued >= TimeoutMs
  /\ cache' = IF Truthy(calls[c].key)
              THEN [cache EXCEPT ![calls[c].key] = NoEntry] ELSE cache
  /\ calls' = [calls EXCEPT ![c] = Completed]
  /\ done' = Completion(c, "thrown", cause, Undefined, Thrown(cause))
  /\ UNCHANGED <<now, advances, last, mutated, env, req>>

\* a catch block that returns a placeholder instead of throwing
Reject_Fallback(c, cause) ==
  /\ Delivered
  /\ calls[c].st = "pending"
  /\ cause.kind = "timeout" => now - calls[c].issued >= TimeoutMs
  /\ calls' = [calls EXCEPT ![c] = Completed]
  /\ done' = Completion(c, "returned", cause,
                        [by |-> c, key |-> calls[c].key],
                        NoError)
  /\ UNCHANGED <<cache, now, advances, last, mutated, env, req>>

Reject_NoTimeout(c, cause) ==
  /\ Delivered
  /\ calls[c].st = "pending"
  /\ cause.kind # "timeout"
  /\ calls' = [calls EXCEPT ![c] = Completed]
  /\ done' = Completion(c, "thrown", cause, Undefined, Thrown(cause))
  /\ UNCHANGED <<cache, now, advances, last, mutated, env, req>>

\* axios rejects, the catch block throws
Reject(c, cause) ==
  /\ Delivered
  /\ calls[c].st = "pending"
  /\ cause.kind = "timeout" => now - calls[c].issued >= TimeoutMs
  /\ calls' = [calls EXCEPT ![c] = Completed]
  /\ done' = Completion(c, "thrown", cause, Undefined, Thrown(cause))
  /\ UNCHANGED <<cache, now, advances, last, mutated, env, req>>

\* the caller's `await fetchFromRobloxAPI(...)` continues with the value
\* returned, or its catch with the error thrown
\* the object the completed invocation hands to its caller: response.data
\* itself after an outbound call, what cache.get gave after a hit
Handed ==
  IF done.outbound = 1 THEN Data(done.id)
  ELSE ReadObj(StoredObj(Data(done.res.by)), done.id)

\* m: the caller goes on to mutate the object it was handed
Deliver(m) ==
  /\ ~Delivered
  /\ done' = NoDone
  /\ mutated' = IF m /\ done.st = "returned" /\ done.res # Undefined
                THEN mutated \cup {Handed} ELSE mutated
  /\ UNCHANGED <<cache, now, advances, calls, last, env, req>>

----------------------------------------------------------------------------
(* The environment *)

\* time passes
Advance(d) ==
  /\ Delivered
  /\ advances < MaxAdvances
  /\ now' = now + d
  /\ advances' = advances + 1
  /\ done' = NoDone
  /\ UNCHANGED <<cache, calls, last, mutated, env, req>>

\* node-cache's periodic _checkData: every expired entry is deleted
Sweep ==
  /\ Delivered
  /\ \E k \in Keys : cache[k] # NoEntry /\ Expired(cache[k], now)
  /\ cache' = [k \in Keys |->
                 IF cache[k] # NoEntry /\ Expired(cache[k], now)
                 THEN NoEntry ELSE cache[k]]
  /\ done' = NoDone
  /\ UNCHANGED <<now, advances, calls, last, mutated, env, req>>

Next ==
  \/ \E c \in Calls, url \in Urls, k \in Keys, ttl \in TtlArgs, d \in {0, 1} :
       InvokeHit(c, url, k, ttl, d)
  \/ \E c \in Calls, url \in Urls, k \in KeyArgs, ttl \in TtlArgs :
       InvokeMiss(c, url, k, ttl)
  \/ \E c \in Calls, raw \in BOOLEAN : Resolve(c, raw)
  \/ \E c \in Calls, cause \in Causes : Reject(c, cause)
  \/ \E m \in BOOLEAN : Deliver(m)
  \/ \E d \in Steps : Advance(d)
  \/ Sweep

Spec == Init /\ [][Next]_vars

----------------------------------------------------------------------------
(* The data routes: authenticateApiKey, the validators, the handler *)

\* the state of the gateway, which only fetchFromRobloxAPI touches
gateway == <<cache, now, advances, calls, last, done, mutated>>

\* a request comes in; only /avatar declares the query parameter size
Arrive(route, header, query, idOk, size) ==
  /\ req.stage \in {"none", "done"}
  /\ IF route = "avatar" THEN TRUE ELSE size = <<>>
  /\ req' = [NoRequest EXCEPT !.stage = "auth", !.route = route,
                              !.header = header, !.query = query,
                              !.idOk = idOk, !.size = size]
  /\ UNCHANGED <<gateway, env>>

\* res.status(status).json({ success, code, ... }): one response is sent
Send(r, status, success, code, body) ==
  [r EXCEPT !.stage = "done", !.responses = @ + 1, !.status = status,
            !.success = success, !.code = code, !.body = body]

sendResponse(r, body) == Send(r, 200, TRUE, "", body)

sendError(r, status, code) == Send(r, status, FALSE, code, "error")

\* next(): the middleware hands the request on
Passed(r, name, stage) ==
  [r EXCEPT !.passed = Append(@, name), !.stage = stage]

\* req.headers['x-api-key'] || req.query.apiKey
ProvidedApiKey(r) == IF r.header # NoKey THEN r.header ELSE r.query

authenticateApiKey_MissingOk ==
  /\ req.stage = "auth"
  /\ req' = IF env = NoKey THEN Passed(req, "auth", "validate")
            ELSE IF ProvidedApiKey(req) # NoKey /\ ProvidedApiKey(req) # env
                 THEN sendError(req, 401, "INVALID_API_KEY")
                 ELSE Passed(req, "auth", "validate")
  /\ UNCHANGED <<gateway, env>>

authenticateApiKey ==
  /\ req.stage = "auth"
  /\ req' = IF env = NoKey THEN Passed(req, "auth", "validate")
            ELSE IF ProvidedApiKey(req) = NoKey \/ ProvidedApiKey(req) # env
                 THEN sendError(req, 401, "INVALID_API_KEY")
                 ELSE Passed(req, "auth", "validate")
  /\ UNCHANGED <<gateway, env>>

\* param(id).isNumeric(); query('size').optional().isIn([...]), which
\* express-validator applies to every element of an array value
ValidationErrors(r) ==
  \/ ~r.idOk
  \/ r.route = "avatar" /\ \E i \in DOMAIN r.size : r.size[i] \notin ListedSizes

handleValidationErrors ==
  /\ req.stage = "validate"
  /\ req' = IF ValidationErrors(req)
            THEN sendError(req, 400, "VALIDATION_ERROR")
            ELSE Passed(req, "validation", "handler")
  /\ UNCHANGED <<gateway, env>>

\* the handler starts: the primary lookup is awaited, or mock data is sent
Handle ==
  /\ req.stage = "handler"
  /\ req' = IF req.route \in GatewayRoutes
            THEN [req EXCEPT !.stage = "primary", !.fetches = 1]
            ELSE sendResponse(req, "mock")
  /\ UNCHANGED <<gateway, env>>

\* the fallback of /avatar builds its URL with size.split('x'), which an
\* array does not have: the TypeError reaches the outer catch
AvatarFallback(r) ==
  IF Len(r.size) > 1 THEN sendError(r, 500, "AVATAR_FETCH_ERROR")
  ELSE sendResponse(r, "mock")

\* the awaited primary lookup settles with outcome o
PrimarySettles(o) ==
  /\ req.stage = "primary"
  /\ LET r == [req EXCEPT !.primary = o]
     IN  req' = CASE req.route = "player" ->
                       IF o = "thrown" THEN sendResponse(r, "mock")
                       ELSE [r EXCEPT !.stage = "aux", !.fetches = 3]
                  [] req.route = "game" ->
                       IF o = "object" THEN sendResponse(r, "upstream")
                       ELSE sendResponse(r, "mock")
                  [] req.route = "group" ->
                       IF o \in {"thrown", "undefined"}
                       THEN sendResponse(r, "mock")
                       ELSE sendResponse(r, "upstream")
                  [] OTHER ->
                       IF o = "object" THEN sendResponse(r, "upstream")
                       ELSE AvatarFallback(r)
  /\ UNCHANGED <<gateway, env>>

\* /player: Promise.allSettled of the friends-count and avatar lookups
\* settles with outcomes f and a
AuxSettle(f, a) ==
  /\ req.stage = "aux"
  /\ LET r == [req EXCEPT !.friendsData = f, !.avatarData = a]
         friendsCount == IF f = "thrown" THEN "0"
                         ELSE IF f = "object" THEN "count" ELSE "undefined"
         avatarThumbnail == IF a = "object" THEN "upstream" ELSE "default"
     IN  req' = IF a = "string" \/ req.primary = "undefined"
                THEN [sendResponse(r, "mock") EXCEPT
                        !.friendsCount = "random", !.avatarThumbnail = "mock"]
                ELSE [sendResponse(r, "upstream") EXCEPT
                        !.friendsCount = friendsCount,
                        !.avatarThumbnail = avatarThumbnail]
  /\ UNCHANGED <<gateway, env>>

RouteInit ==
  /\ cache = [k \in Keys |-> NoEntry]
  /\ now = 0
  /\ advances = 0
  /\ calls = [c \in Calls |-> IdleCall]
  /\ last = [k \in Keys |-> NoStore]
  /\ done = NoDone
  /\ mutated = {}
  /\ env \in ApiKeys
  /\ req = NoRequest

RouteNext ==
  \/ \E route \in Routes, header \in Provided, query \in Provided,
        idOk \in BOOLEAN, size \in SizeArgs :
       Arrive(route, header, query, idOk, size)
  \/ authenticateApiKey
  \/ handleValidationErrors
  \/ Handle
  \/ \E o \in Outcomes : PrimarySettles(o)
  \/ \E f \in AuxOutcomes, a \in AuxOutcomes : AuxSettle(f, a)

RouteSpec == RouteInit /\ [][RouteNext]_vars

----------------------------------------------------------------------------
(* Progress *)

\* the outbound call of c is still within its timeout
Running(c) ==
  calls[c].st = "pending" /\ now - calls[c].issued < TimeoutMs

\* time passes until the timeout of c's outbound call is due
Elapse(c) ==
  /\ Delivered
  /\ Running(c)
  /\ now' = calls[c].issued + TimeoutMs
  /\ done' = NoDone
  /\ UNCHANGED <<cache, advances, calls, last, mutated, env, req>>

\* axios aborts the outbound call of c when its timeout is due
TimedOut(c) == Reject(c, [kind |-> "timeout", status |-> 0])

LiveNext == Next \/ \E c \in Calls : Elapse(c)

\* The clock does not stop, a due timer fires, and the continuation of an
\* await is run.
LiveSpec ==
  /\ Init /\ [][LiveNext]_vars
  /\ \A c \in Calls : WF_vars(Elapse(c)) /\ WF_vars(TimedOut(c))
  /\ WF_vars(\E m \in BOOLEAN : Deliver(m))

\* An awaited lookup settles (C15), and express runs the next middleware.
RouteLiveSpec ==
  /\ RouteSpec
  /\ WF_vars(authenticateApiKey) /\ WF_vars(handleValidationErrors)
  /\ WF_vars(Handle)
  /\ WF_vars(\E o \in Outcomes : PrimarySettles(o))
  /\ WF_vars(\E f \in AuxOutcomes, a \in AuxOutcomes : AuxSettle(f, a))

----------------------------------------------------------------------------
(* Properties *)

\* an invocation completed in the last step
Over == done.id # 0
\* it was given a cache key
Keyed == Over /\ Truthy(done.key)
\* it made no outbound call: it was served by cache.has / cache.get
Served == Over /\ done.outbound = 0
\* a value had been stored under its key when it was made, and the ttl of
\* that store had not yet elapsed / had elapsed
Within == Keyed /\ done.seen # NoStore
                /\ done.issued <= done.seen.at + done.seen.ttl * 1000
Elapsed == Keyed /\ done.seen # NoStore
                 /\ done.issued > done.seen.at + done.seen.ttl * 1000
\* its outbound call failed
Failures == {"status", "timeout", "network", "setup"}
Failed == Over /\ done.cause.kind \in Failures

\* C1: a fetch for a key made while the ttl of the value stored under that
\* key has not elapsed returns that value and makes no outbound call.
C1_CacheHit ==
  Within => /\ done.st = "returned"
            /\ done.outbound = 0
            /\ done.res.by = done.seen.by

C3_FailurePurity ==
  [][\A c \in Calls :
       /\ calls[c].st = "idle" /\ calls'[c].st = "pending" =>
            \A k \in Keys :
              /\ Has(cache, k, now) => cache'[k] = cache[k]
              /\ cache'[k] # NoEntry => cache'[k] = cache[k]
       /\ calls[c].st = "pending" /\ calls'[c].st = "over" /\ Failed' =>
            /\ cache' = cache
            /\ done'.st = "thrown"
            /\ done'.err # NoError]_vars

\* a fetch failed on a 503 while the entry a concurrent fetch for the same
\* key stored is in the cache
C3_Witness ==
  /\ Keyed /\ done.st = "thrown"
  /\ done.cause = [kind |-> "status", status |-> 503]
  /\ cache[done.key] # NoEntry
  /\ cache[done.key].v.by \in done.racing

\* C4: the error thrown identifies the failure category: no failure of
\* another category (or status) makes the gateway throw the same error.
C4_TypedErrors ==
  Failed => \A other \in Causes :
              Thrown(other) = done.err => other = done.cause

\* C5: a 2xx response whose body cannot be decoded makes the fetch throw;
\* it returns no value and stores nothing under its key.
C5_MalformedIsFailure ==
  Over /\ done.cause.kind = "malformed" =>
    /\ done.st = "thrown"
    /\ done.res = Undefined
    /\ Keyed => cache[done.key].v.by # done.id

\* C6: a fetch without a cache key is never served from the cache, makes
\* exactly one outbound call, returns that call's response when it
\* succeeds, and no step of it changes the cache table.
C6_CacheBypass ==
  [][\A c \in Calls :
       /\ calls[c].st = "idle" /\ calls'[c].st = "pending"
            /\ ~Truthy(calls'[c].key) => cache' = cache
       /\ calls[c].st = "pending" /\ calls'[c].st = "over"
            /\ ~Truthy(calls[c].key) =>
              /\ cache' = cache
              /\ done'.outbound = 1
              /\ done'.st = "returned" => done'.res.by = c
       /\ calls[c].st = "idle" /\ calls'[c].st = "over" => Truthy(done'.key)
    ]_vars

\* a fetch without a key returned its own response while an unexpired
\* entry was in the cache
C6_Witness ==
  /\ Over /\ ~Truthy(done.key)
  /\ done.st = "returned" /\ done.outbound = 1
  /\ \E k \in Keys : Has(cache, k, now)

\* C7: a fetch for a key never returns a value obtained for another key,
\* and a successful fetch for a key changes no entry of another key.
C7_NoCrossKey ==
  [][/\ Keyed' /\ done'.st = "returned" /\ done'.res # Undefined =>
          done'.res.key = done'.key
     /\ \A c \in Calls :
          calls[c].st = "pending" /\ calls'[c].st = "over"
            /\ done'.st = "returned" =>
              \A k \in Keys \ {calls[c].key} : cache'[k] = cache[k]
    ]_vars

\* a fetch for key "b" returned its own response while key "a" holds an
\* unexpired entry, which it left there
C7_Witness ==
  /\ Keyed /\ done.key = "b" /\ done.st = "returned"
  /\ done.res.key = "b"
  /\ Has(cache, "a", now) /\ cache["a"].v.key = "a"

\* C8: a fetch that missed while another fetch for the same key was
\* pending made its own outbound call, and once a fetch has stored its
\* response the entry of the key holds that response, whatever was stored
\* there by a fetch that completed before it.
C8_LastWriteWins ==
  Over =>
    /\ done.racing # {} => done.outbound = 1
    /\ Keyed /\ done.st = "returned" /\ done.outbound = 1 =>
         /\ done.res.by = done.id
         /\ cache[done.key] # NoEntry
         /\ cache[done.key].v = done.res

\* the first of two fetches racing on a key completed after the second,
\* and replaced the value the second stored
C8_Witness ==
  /\ Keyed /\ done.id = 1 /\ done.st = "returned"
  /\ 2 \in done.racing /\ done.prev = 2
  /\ cache[done.key].v.by = 1

C10_NoLocalRecovery ==
  Over =>
    /\ done.outbound <= 1
    /\ Failed => /\ done.st = "thrown"
                 /\ done.outbound = 1
                 /\ done.res = Undefined
                 /\ done.err # NoError
    /\ done.st = "thrown" => Failed
    /\ done.st = "returned" /\ done.res # Undefined =>
         IF done.outbound = 1
         THEN done.res.by = done.id
         ELSE done.res.by = done.seen.by /\ done.res.key = done.key

\* a fetch threw on a network error although a value had been stored under
\* its key before
C10_Witness ==
  /\ Keyed /\ done.st = "thrown" /\ done.cause.kind = "network"
  /\ done.seen # NoStore

\* C11: callers get a copy, not a handle. No object a caller has mutated is
\* an object the table holds; the object a hit hands out is a fresh one, which
\* is neither the stored one nor one any caller has touched; and the object a
\* storing miss returns is not the one it stored. So a later hit for the key
\* is cloned from an object no caller could change.
C11_NoSharedState ==
  /\ \A k \in Keys : cache[k] # NoEntry => Held(cache[k]) \notin mutated
  /\ (Served /\ done.st = "returned" /\ done.res # Undefined) =>
       /\ Handed \notin mutated
       /\ Handed # StoredObj(Data(done.res.by))
  /\ (Keyed /\ done.st = "returned" /\ done.outbound = 1) =>
       Handed # Held(cache[done.key])

\* a hit is served for a key after the caller of the storing miss has
\* mutated the value it was returned
C11_Witness ==
  /\ Served /\ done.st = "returned" /\ done.res # Undefined
  /\ Data(done.res.by) \in mutated
  /\ cache[done.key] # NoEntry

\* C12: caller fallback to mock data. A request whose primary lookup raised
\* is answered 200 with success: true and synthetic data; on /player, when
\* the primary lookup gave the profile and an auxiliary lookup raised, the
\* answer is the upstream profile, with friendsCount 0 for a failed
\* friends-count lookup and the default avatar URL for a failed avatar lookup.
C12_MockFallback ==
  /\ (req.stage = "done" /\ req.primary = "thrown") =>
       req.status = 200 /\ req.success /\ req.body = "mock"
  /\ (/\ req.stage = "done" /\ req.route = "player"
      /\ req.primary = "object"
      /\ req.friendsData \in {"thrown", "object"}
      /\ req.avatarData \in {"thrown", "object"}) =>
       /\ req.status = 200 /\ req.success /\ req.body = "upstream"
       /\ req.friendsData = "thrown" => req.friendsCount = "0"
       /\ req.avatarData = "thrown" => req.avatarThumbnail = "default"

\* C13: auth and validation gate the gateway. The handler runs, and the
\* gateway is invoked, only for a request that passed authenticateApiKey and
\* then the validation; with API_KEY set a missing or different key is
\* answered 401 INVALID_API_KEY; a non-numeric id that got past the key check
\* is answered 400 VALIDATION_ERROR; a rejected request invoked the gateway
\* zero times; without API_KEY no request is answered 401.
C13_Gated ==
  LET authOk == env = NoKey \/ ProvidedApiKey(req) = env
      answered == req.stage = "done"
  IN  /\ (req.stage \in {"handler", "primary", "aux"} \/ req.fetches > 0
            \/ req.body \in {"mock", "upstream"}) =>
           req.passed = <<"auth", "validation">> /\ authOk /\ req.idOk
      /\ (answered /\ ~authOk) =>
           /\ req.status = 401 /\ req.code = "INVALID_API_KEY"
           /\ req.passed = <<>>
      /\ (answered /\ authOk /\ ~req.idOk) =>
           /\ req.status = 400 /\ req.code = "VALIDATION_ERROR"
           /\ req.passed = <<"auth">>
      /\ req.status \in {400, 401} => req.fetches = 0 /\ ~req.success
      /\ env = NoKey => req.status # 401
      /\ req.responses <= 1

\* with API_KEY set, a request with the right key and a non-numeric id has
\* been answered 400
C13_Witness ==
  /\ env # NoKey /\ req.stage = "done" /\ ~req.idOk
  /\ req.status = 400 /\ req.passed = <<"auth">>

\* the table as a read at time `at` sees it: the unexpired entries
Live(c, at) == [k \in Keys |-> IF Has(c, k, at) THEN c[k] ELSE NoEntry]

\* C14: a cache hit is a pure read. A call that completes without an outbound
\* call leaves every unexpired entry as it was, value and expiry instant; one
\* that returns the stored value leaves the whole table as it was; and no
\* step changes or removes an entry that is unexpired at that time, except
\* the successful outbound fetch of a call with the same key.
C14_PureRead ==
  [][/\ (done'.id # 0 /\ done'.outbound = 0) =>
          Live(cache', now') = Live(cache, now')
     /\ (done'.id # 0 /\ done'.outbound = 0 /\ done'.res # Undefined) =>
          cache' = cache
     /\ \A k \in Keys :
          (Has(cache, k, now') /\ cache'[k] # cache[k]) =>
            /\ done'.st = "returned" /\ done'.outbound = 1
            /\ done'.key = k]_vars

\* a hit was served some time after the store, and the entry still carries
\* the expiry instant the store gave it
C14_Witness ==
  /\ Served /\ done.res # Undefined
  /\ done.issued > last[done.key].at
  /\ cache[done.key].t = last[done.key].at + last[done.key].ttl * 1000

\* C16: no empty result from the check-then-read. A call that returns
\* without an outbound call returns the value stored under its key, never
\* undefined, wherever the entry's expiry instant falls relative to
\* cache.has and cache.get.
C16_NoEmptyResult ==
  (Served /\ done.st = "returned") =>
    done.res # Undefined /\ done.res.key = done.key

\* C15: every fetch completes. An invocation whose outbound call is pending
\* is eventually over, returned or thrown, and its caller has resumed: the
\* upstream may never answer, the timeout then rejects the call.
C15_EveryFetchCompletes ==
  \A c \in Calls :
    (calls[c].st = "pending") ~> (calls[c].st = "over" /\ Delivered)

\* an invocation was rejected by the timeout while nothing else had happened
\* since it was made but the passing of time
C15_Witness ==
  /\ Over /\ done.st = "thrown" /\ done.cause.kind = "timeout"
  /\ now - done.issued = TimeoutMs

\* C15, for the routes: once its lookups settle, a request that came in is
\* answered, and it is answered once.
C15_EveryRequestAnswered ==
  /\ (req.stage = "auth") ~> (req.stage = "done" /\ req.responses = 1)
  /\ [](req.responses <= 1)

====
